---- MODULE Spec2Model ----
(***************************************************************************)
(* Model of the Finsight portfolio ledger (api/portfolio_actions.py), the  *)
(* tool adapter (agent/tools/tools.py) and the agent loop configuration    *)
(* (agent/agent.py).                                                       *)
(*                                                                         *)
(* Optional values (Python None / a value) are sequences of length 0 or 1. *)
(* Quantities and prices are integers.  Strings are taken from the finite  *)
(* alphabets below, and str.upper()/str.lower() are tabulated on them.     *)
(***************************************************************************)
EXTENDS Integers, Sequences, FiniteSets, TLC

\* ------------------------------------------------------------------ bounds

\* Largest quantity a persisted position may reach in the model.
MaxQty == 3

\* Largest number of data rows of an imported spreadsheet.
MaxRows == 2

\* Results on one page of the search engine.
MaxPage == 2

\* ------------------------------------------------------------------ values

None == << >>

Some(x) == << x >>

\* str.upper() on the ticker alphabet of the model.
Upper(s) ==
  CASE s = "aapl" -> "AAPL"
    [] s = "msft" -> "MSFT"
    [] OTHER -> s

\* str.lower() on the header alphabet of the model.
Lower(s) ==
  CASE s = "Ticker (RIC)" -> "ticker (ric)"
    [] s = "Ticker" -> "ticker"
    [] s = "QTY" -> "qty"
    [] s = "quantity" -> "quantity"
    [] s = "Company Name" -> "company name"
    [] s = "Execution Price" -> "execution price"
    [] s = "Current Price" -> "current price"
    [] s = "Sector" -> "sector"
    [] s = "Daily Change (%)" -> "daily change (%)"
    [] s = "Change Since Traded (%)" -> "change since traded (%)"
    [] OTHER -> s

\* Ticker arguments as callers type them, and the keys they normalise to.
TickerArgs == {"aapl", "AAPL", "MSFT"}

Tickers == {Upper(t) : t \in TickerArgs}

\* Position.ticker ascending (string order on the ticker alphabet).
TickerRank(t) ==
  CASE t = "AAPL" -> 1
    [] t = "MSFT" -> 2
    [] t = "aapl" -> 3
    [] t = "msft" -> 4
    [] OTHER -> 5

\* A row of the positions table.
Position(t, q, e, c) ==
  [ticker |-> t, qty |-> q, exec_price |-> e, current_price |-> c]

\* ------------------------------------------------------------------ state

VARIABLES
  db,         \* committed rows of the positions table
  op,         \* the last ledger operation: "none", "buy", "sell", "show", "import"
  arg,        \* its arguments
  file,       \* the spreadsheet of the last import
  outcome,    \* "ok", or the error the operation raised
  ret,        \* what it returned: a sequence of rows (empty: None / nothing)
  pre,        \* db when the operation was called
  bought,     \* history: per ticker, the sum of quantities bought so far
  onlyBuys,   \* history: no sell and no import has run so far
  agent_state,  \* position of the agent turn
  iterations,   \* AgentExecutor's iteration counter of the turn
  pending,      \* the tool call the model emitted, to be executed
  turn_result,  \* how the last turn ended
  confirmed,    \* the user message of the turn holds an explicit confirmation
  open_sessions,  \* persistence sessions opened and not yet closed
  call_opened,    \* sessions the last tool call opened
  PORTFOLIO_DF,   \* the process-wide table of api/main.py
  response,       \* the last HTTP response
  uploaded,       \* history: the file of the last upload that succeeded
  search,         \* the last web_search call and what it did
  sess            \* the ledger calls in flight in concurrent sessions

ledgerVars == << db, op, arg, file, outcome, ret, pre, bought, onlyBuys >>

agentVars == << agent_state, iterations, pending, turn_result, confirmed >>

toolVars == << open_sessions, call_opened >>

uploadVars == << PORTFOLIO_DF, response, uploaded >>

\* What neither a ledger operation nor the agent touches.
restVars == << PORTFOLIO_DF, response, uploaded, search, sess >>

vars == << db, op, arg, file, outcome, ret, pre, bought, onlyBuys,
           agent_state, iterations, pending, turn_result, confirmed,
           open_sessions, call_opened,
           PORTFOLIO_DF, response, uploaded, search, sess >>

\* ------------------------------------------------------------------ errors

\* ValueError("Quantity must be positive.")
InvalidQuantity == "ValueError: Quantity must be positive."

\* ValueError("Not enough shares to sell.")
InsufficientShares == "ValueError: Not enough shares to sell."

\* ValueError("Excel must include columns: ticker, qty")
SchemaError == "ValueError: Excel must include columns: ticker, qty"

\* `assert pos is not None` failing in buy_stock
AssertionFailed == "AssertionError"

\* float() of a cell that is not a number, in load_df_into_db
FloatError == "ValueError: could not convert string to float"

\* the commit of two rows with the same ticker
IntegrityError == "IntegrityError"

\* ------------------------------------------------------------------ query helpers

\* The rows of S as a sequence, Position.ticker ascending.
RECURSIVE OrderByTicker(_)
OrderByTicker(S) ==
  IF S = {} THEN << >>
  ELSE LET p == CHOOSE x \in S : \A y \in S : TickerRank(x.ticker) <= TickerRank(y.ticker)
       IN  << p >> \o OrderByTicker(S \ {p})

\* The rows of S as a sequence, Position.ticker descending.
RECURSIVE OrderByTickerDesc(_)
OrderByTickerDesc(S) ==
  IF S = {} THEN << >>
  ELSE LET p == CHOOSE x \in S : \A y \in S : TickerRank(x.ticker) >= TickerRank(y.ticker)
       IN  << p >> \o OrderByTickerDesc(S \ {p})

\* list_positions without its ORDER BY: the rows in another order.
list_positions_unordered(d) == OrderByTickerDesc(d)

list_positions(d) == OrderByTicker(d)

get_position_unfiltered(d, ticker) ==
  IF d = {} THEN None ELSE Some(CHOOSE p \in d : TRUE)

get_position(d, ticker) ==
  LET m == {p \in d : p.ticker = Upper(ticker)}
  IN  IF m = {} THEN None ELSE Some(CHOOSE p \in m : TRUE)

\* ------------------------------------------------------------------ mutations

Max(a, b) == IF a >= b THEN a ELSE b

\* insert_position storing the prices as passed, without defaulting a missing
\* one from the other.
insert_position_no_default(d, ticker, qty_delta, exec_price, current_price) ==
  LET t == Upper(ticker)
      found == get_position(d, t)
  IN  IF found = None
      THEN LET pos == Position(t, Max(qty_delta, 0), exec_price, current_price)
           IN  [db |-> d \cup {pos}, pos |-> Some(pos)]
      ELSE LET old == found[1]
               pos == Position(old.ticker, old.qty + qty_delta,
                               IF exec_price # None THEN exec_price ELSE old.exec_price,
                               IF current_price # None THEN current_price ELSE old.current_price)
           IN  IF pos.qty <= 0
               THEN [db |-> d \ {old}, pos |-> None]
               ELSE [db |-> (d \ {old}) \cup {pos}, pos |-> Some(pos)]

\* insert_position: the table after the commit, and the returned row.
insert_position(d, ticker, qty_delta, exec_price, current_price) ==
  LET t == Upper(ticker)
      found == get_position(d, t)
  IN  IF found = None
      THEN LET pos == Position(t, Max(qty_delta, 0),
                               IF exec_price # None THEN exec_price ELSE current_price,
                               IF current_price # None THEN current_price ELSE exec_price)
           IN  [db |-> d \cup {pos}, pos |-> Some(pos)]
      ELSE LET old == found[1]
               pos == Position(old.ticker, old.qty + qty_delta,
                               IF exec_price # None THEN exec_price ELSE old.exec_price,
                               IF current_price # None THEN current_price ELSE old.current_price)
           IN  IF pos.qty <= 0
               THEN [db |-> d \ {old}, pos |-> None]
               ELSE [db |-> (d \ {old}) \cup {pos}, pos |-> Some(pos)]

\* buy_stock rejecting only negative quantities.
buy_stock_accepts_zero(d, ticker, qty, exec_price, current_price) ==
  IF qty < 0
  THEN [db |-> d, outcome |-> InvalidQuantity, ret |-> None]
  ELSE LET r == insert_position(d, ticker, qty, exec_price, current_price)
       IN  IF r.pos = None
           THEN [db |-> r.db, outcome |-> AssertionFailed, ret |-> None]
           ELSE [db |-> r.db, outcome |-> "ok", ret |-> r.pos]

\* buy_stock: the table afterwards, the outcome and the returned row.
buy_stock(d, ticker, qty, exec_price, current_price) ==
  IF qty <= 0
  THEN [db |-> d, outcome |-> InvalidQuantity, ret |-> None]
  ELSE LET r == insert_position(d, ticker, qty, exec_price, current_price)
       IN  IF r.pos = None
           THEN [db |-> r.db, outcome |-> AssertionFailed, ret |-> None]
           ELSE [db |-> r.db, outcome |-> "ok", ret |-> r.pos]

\* sell_stock refusing to sell the whole holding.
sell_stock_keeps_one(d, ticker, qty) ==
  IF qty <= 0
  THEN [db |-> d, outcome |-> InvalidQuantity, ret |-> None]
  ELSE LET found == get_position(d, ticker)
       IN  IF found = None \/ found[1].qty <= qty
           THEN [db |-> d, outcome |-> InsufficientShares, ret |-> None]
           ELSE LET r == insert_position(d, ticker, -qty, None, None)
                IN  [db |-> r.db, outcome |-> "ok", ret |-> r.pos]

\* sell_stock without the check of the held quantity.
sell_stock_unchecked(d, ticker, qty) ==
  IF qty <= 0
  THEN [db |-> d, outcome |-> InvalidQuantity, ret |-> None]
  ELSE LET r == insert_position(d, ticker, -qty, None, None)
       IN  [db |-> r.db, outcome |-> "ok", ret |-> r.pos]

\* sell_stock: the table afterwards, the outcome and the returned row.
sell_stock(d, ticker, qty) ==
  IF qty <= 0
  THEN [db |-> d, outcome |-> InvalidQuantity, ret |-> None]
  ELSE LET found == get_position(d, ticker)
       IN  IF found = None \/ found[1].qty < qty
           THEN [db |-> d, outcome |-> InsufficientShares, ret |-> None]
           ELSE LET r == insert_position(d, ticker, -qty, None, None)
                IN  [db |-> r.db, outcome |-> "ok", ret |-> r.pos]

\* ------------------------------------------------------------------ Excel ingestion

\* Spreadsheet cells: a number, a text, or an empty cell.
Num(n) == [k |-> "num", s |-> "", v |-> n]

Str(x) == [k |-> "str", s |-> x, v |-> 0]

Blank == [k |-> "blank", s |-> "", v |-> 0]

\* RENAME of portfolio_actions.py
RENAME ==
  [h \in {"Ticker (RIC)", "Company Name", "quantity"} |->
     CASE h = "Ticker (RIC)" -> "ticker"
       [] h = "Company Name" -> "company"
       [] h = "quantity" -> "qty"]

Range(f) == {f[i] : i \in DOMAIN f}

\* The position of column `name` of a frame.
ColumnIndex(columns, name) == CHOOSE i \in DOMAIN columns : columns[i] = name

\* Series.astype(str).str.upper() on one cell.
str_upper(cell) == IF cell.k = "str" THEN Str(Upper(cell.s)) ELSE cell

\* pd.to_numeric(errors="coerce") then fillna(0.0) on one cell.
to_numeric_fillna(cell) == IF cell.k = "num" THEN cell ELSE Num(0)

\* df_from_excel_bytes: the normalised frame, or the schema error.
df_from_excel_bytes(content) ==
  LET renamed == [i \in DOMAIN content.columns |->
                    IF content.columns[i] \in DOMAIN RENAME
                    THEN RENAME[content.columns[i]] ELSE content.columns[i]]
      lowered == [i \in DOMAIN renamed |-> Lower(renamed[i])]
  IN  IF ~ ({"ticker", "qty"} \subseteq Range(lowered))
      THEN [outcome |-> SchemaError, columns |-> << >>, rows |-> << >>]
      ELSE LET it == ColumnIndex(lowered, "ticker")
               iq == ColumnIndex(lowered, "qty")
           IN  [outcome |-> "ok",
                columns |-> lowered,
                rows |-> [r \in DOMAIN content.rows |->
                            [i \in DOMAIN lowered |->
                               IF i = it THEN str_upper(content.rows[r][i])
                               ELSE IF i = iq THEN to_numeric_fillna(content.rows[r][i])
                               ELSE content.rows[r][i]]]]

\* `float(row[c]) if c in df.columns and pd.notna(row.get(c)) else None` raises.
price_raises(df, row, c) ==
  /\ c \in Range(df.columns)
  /\ row[ColumnIndex(df.columns, c)].k = "str"

\* `float(row[c]) if c in df.columns and pd.notna(row.get(c)) else None`
price_of(df, row, c) ==
  IF c \in Range(df.columns) /\ row[ColumnIndex(df.columns, c)].k = "num"
  THEN Some(row[ColumnIndex(df.columns, c)].v)
  ELSE None

\* The Position built from one row of the frame.
row_position(df, row) ==
  Position(Upper(row[ColumnIndex(df.columns, "ticker")].s),
           row[ColumnIndex(df.columns, "qty")].v,
           price_of(df, row, "exec_price"),
           price_of(df, row, "current_price"))

\* The ticker is the unique key of the positions table: a commit that adds two
\* rows with one ticker is rejected.
unique_key_ok(rows) ==
  \A i, j \in DOMAIN rows : rows[i].ticker = rows[j].ticker => i = j

\* load_df_into_db without the clearing of the table: the rows are merged.
load_df_into_db_merge(d, df) ==
  LET raises == \E r \in DOMAIN df.rows :
                   \/ price_raises(df, df.rows[r], "exec_price")
                   \/ price_raises(df, df.rows[r], "current_price")
      rows == [r \in DOMAIN df.rows |-> row_position(df, df.rows[r])]
  IN  IF raises THEN [db |-> d, outcome |-> FloatError]
      ELSE IF ~ unique_key_ok(rows) THEN [db |-> d, outcome |-> IntegrityError]
      ELSE [db |-> {p \in d : \A i \in DOMAIN rows : rows[i].ticker # p.ticker}
                     \cup Range(rows),
            outcome |-> "ok"]

\* load_df_into_db: the table afterwards and the outcome.
load_df_into_db(d, df) ==
  LET cleared == d \ Range(list_positions(d))
      raises == \E r \in DOMAIN df.rows :
                   \/ price_raises(df, df.rows[r], "exec_price")
                   \/ price_raises(df, df.rows[r], "current_price")
      rows == [r \in DOMAIN df.rows |-> row_position(df, df.rows[r])]
  IN  IF raises THEN [db |-> cleared, outcome |-> FloatError]
      ELSE IF ~ unique_key_ok(rows) THEN [db |-> cleared, outcome |-> IntegrityError]
      ELSE [db |-> cleared \cup Range(rows), outcome |-> "ok"]

\* The import of a spreadsheet into the ledger: parse, then load.
import_excel(d, content) ==
  LET df == df_from_excel_bytes(content)
  IN  IF df.outcome # "ok" THEN [db |-> d, outcome |-> df.outcome]
      ELSE load_df_into_db(d, df)

\* ------------------------------------------------------------------ inputs

\* Quantities passed to buy and sell.
QtyArgs == {-1, 0, 1, 2}

\* (exec_price, current_price) argument pairs passed to buy.
PriceArgs == {<< None, None >>, << Some(150), None >>,
              << None, Some(160) >>, << Some(150), Some(160) >>}

\* buy without price arguments.
NoPrices == {<< None, None >>}

\* Header rows of the imported spreadsheets.
Headers ==
  { << "Ticker (RIC)", "quantity", "Execution Price", "Current Price" >>,
    << "Ticker", "QTY", "Execution Price", "Current Price" >>,
    << "Ticker (RIC)", "Company Name", "Execution Price", "Current Price" >> }

\* Data rows of the imported spreadsheets: ticker, quantity, two price cells.
\* The quantities are positive, negative and not a number.
SheetRows ==
  { << Str("aapl"), Num(2), Num(150), Num(160) >>,
    << Str("MSFT"), Num(-1), Num(150), Num(160) >>,
    << Str("MSFT"), Str("x"), Num(150), Num(160) >> }

SeqsUpTo(S, n) == UNION {[1..k -> S] : k \in 0..n}

Files == [columns : Headers, rows : SeqsUpTo(SheetRows, MaxRows)]

NoFile == [columns |-> << >>, rows |-> << >>]

NoArg == [ticker |-> "", qty |-> 0, exec_price |-> None, current_price |-> None]

NoCallArg == [tool |-> "none", arg |-> NoArg]

NoneBought == [t \in Tickers |-> 0]

\* No HTTP request answered yet.
NoResponse == [status |-> 0, positions |-> << >>, rows_loaded |-> 0]

\* No upload has succeeded yet.
NoUpload == [columns |-> << >>, rows |-> << >>, failed_since |-> FALSE]

\* No web_search call made yet.
NoSearch ==
  [query |-> "", num_results |-> Num(5), network |-> "none", page |-> << >>,
   called_network |-> FALSE, raised |-> FALSE, results |-> << >>]

\* The concurrent sessions of the ledger.
Sessions == {1, 2}

\* A session with no call in flight.
Idle ==
  [pc |-> "idle", call |-> NoCallArg, seen |-> None, base |-> {},
   outcome |-> "none", raced |-> FALSE, row_gone |-> FALSE, last |-> FALSE]

\* ------------------------------------------------------------------ ledger operations

Init ==
  /\ db = {}
  /\ op = "none"
  /\ arg = NoArg
  /\ file = NoFile
  /\ outcome = "ok"
  /\ ret = << >>
  /\ pre = {}
  /\ bought = NoneBought
  /\ onlyBuys = TRUE
  /\ agent_state = "idle"
  /\ iterations = 0
  /\ pending = [tool |-> "none", arg |-> NoArg]
  /\ turn_result = "none"
  /\ confirmed = FALSE
  /\ open_sessions = 0
  /\ call_opened = 0
  /\ PORTFOLIO_DF = None
  /\ response = NoResponse
  /\ uploaded = NoUpload
  /\ search = NoSearch
  /\ sess = [s \in Sessions |-> Idle]

WithinBounds(d) == \A p \in d : p.qty <= MaxQty

\* One call of buy_stock.
BuyStep(t, q, e, c) ==
  LET r == buy_stock(db, t, q, e, c)
  IN  /\ WithinBounds(r.db)
      /\ db' = r.db
      /\ op' = "buy"
      /\ arg' = [ticker |-> t, qty |-> q, exec_price |-> e, current_price |-> c]
      /\ file' = NoFile
      /\ outcome' = r.outcome
      /\ ret' = r.ret
      /\ pre' = db
      /\ bought' = IF onlyBuys /\ r.outcome = "ok"
                   THEN [bought EXCEPT ![Upper(t)] = @ + q] ELSE bought
      /\ onlyBuys' = onlyBuys

\* One call of sell_stock.
SellStep(t, q) ==
  LET r == sell_stock(db, t, q)
  IN  /\ db' = r.db
      /\ op' = "sell"
      /\ arg' = [ticker |-> t, qty |-> q, exec_price |-> None, current_price |-> None]
      /\ file' = NoFile
      /\ outcome' = r.outcome
      /\ ret' = r.ret
      /\ pre' = db
      /\ bought' = NoneBought
      /\ onlyBuys' = FALSE

\* One call of show_portfolio.
ShowStep ==
  /\ op' = "show"
  /\ arg' = NoArg
  /\ file' = NoFile
  /\ outcome' = "ok"
  /\ ret' = list_positions(db)
  /\ pre' = db
  /\ UNCHANGED << db, bought, onlyBuys >>

\* One import of a spreadsheet.
ImportStep(f) ==
  LET r == import_excel(db, f)
  IN  /\ db' = r.db
      /\ op' = "import"
      /\ arg' = NoArg
      /\ file' = f
      /\ outcome' = r.outcome
      /\ ret' = << >>
      /\ pre' = db
      /\ bought' = NoneBought
      /\ onlyBuys' = FALSE

\* `db = SessionLocal()`, `try: ... finally: db.close()` of a tool that ends
\* with outcome o, closing only when the body returns.
tool_sessions_no_finally(o) ==
  [opened |-> 1, closed |-> IF o = "ok" THEN 1 ELSE 0]

\* `db = SessionLocal()`, `try: ... finally: db.close()` of a tool that ends
\* with outcome o: the sessions it opens and closes.
tool_sessions(o) == [opened |-> 1, closed |-> 1]

\* The session bookkeeping of one tool call that ends with outcome o.
ToolSession(o) ==
  /\ open_sessions' = open_sessions + tool_sessions(o).opened - tool_sessions(o).closed
  /\ call_opened' = tool_sessions(o).opened

BuyFrom(tickers, qtys, prices) ==
  \E t \in tickers, q \in qtys, pa \in prices :
    /\ BuyStep(t, q, pa[1], pa[2])
    /\ ToolSession(outcome')
    /\ UNCHANGED << agentVars, restVars >>

Buy(prices) == BuyFrom(TickerArgs, QtyArgs, prices)

SellFrom(tickers, qtys) ==
  \E t \in tickers, q \in qtys :
    /\ SellStep(t, q)
    /\ ToolSession(outcome')
    /\ UNCHANGED << agentVars, restVars >>

Sell == SellFrom(TickerArgs, QtyArgs)

Show == ShowStep /\ ToolSession(outcome') /\ UNCHANGED << agentVars, restVars >>

ImportFrom(files) ==
  \E f \in files : ImportStep(f) /\ UNCHANGED << agentVars, toolVars, restVars >>

Import == ImportFrom(Files)

\* The ledger under buys, sells, listings and imports.
Next == Buy(NoPrices) \/ Sell \/ Show \/ Import

Spec == Init /\ [][Next]_vars

\* The ledger under buys with every combination of price arguments.
NextTrade == Buy(PriceArgs) \/ Sell \/ Show

SpecTrade == Init /\ [][NextTrade]_vars

\* Spreadsheets whose headers are already the ledger's column names, with
\* price cells that hold a number, a text and nothing.
PricedHeaders == { << "ticker", "qty", "exec_price", "current_price" >> }

PricedRows ==
  { << Str("aapl"), Num(2), Num(150), Num(160) >>,
    << Str("MSFT"), Num(1), Str("unknown"), Num(160) >>,
    << Str("MSFT"), Num(1), Blank, Num(160) >> }

PricedFiles == [columns : PricedHeaders, rows : SeqsUpTo(PricedRows, MaxRows)]

\* One call of the Excel import with a spreadsheet that has price columns.
ImportPriced == ImportFrom(PricedFiles)

\* The ledger under trades and imports of spreadsheets with price columns.
NextImport == Buy(NoPrices) \/ Sell \/ Show \/ ImportPriced

SpecImport == Init /\ [][NextImport]_vars

\* ------------------------------------------------------------------ upload API

\* NaN, the missing value of a DataFrame cell.
NaN == Blank

\* A float infinity with its sign.
Inf(sign) == [k |-> "inf", s |-> "", v |-> sign]

MissingColumns == "ValueError: Missing required columns"
SaveError == "OSError: upload not saved"

\* COL_RENAME of the upload API.
COL_RENAME ==
  [h \in {"Ticker (RIC)", "Company Name", "qunatity", "quantity", "Sector",
          "Execution Price", "Current Price", "Daily Change (%)",
          "Change Since Traded (%)"} |->
     CASE h = "Ticker (RIC)" -> "ticker"
       [] h = "Company Name" -> "company"
       [] h = "qunatity" -> "qty"
       [] h = "quantity" -> "qty"
       [] h = "Sector" -> "sector"
       [] h = "Execution Price" -> "exec_price"
       [] h = "Current Price" -> "current_price"
       [] h = "Daily Change (%)" -> "daily_change_pct"
       [] h = "Change Since Traded (%)" -> "since_traded_pct"]

\* The columns the upload requires after the renaming.
required == {"ticker", "qty", "exec_price", "current_price"}

\* `df.rename(columns=rename_map)`: a header that equals a key of COL_RENAME
\* up to case takes the key's name, any other header stays.
rename_columns(columns) ==
  [i \in DOMAIN columns |->
     IF \E h \in DOMAIN COL_RENAME : Lower(h) = Lower(columns[i])
     THEN COL_RENAME[CHOOSE h \in DOMAIN COL_RENAME : Lower(h) = Lower(columns[i])]
     ELSE columns[i]]

\* `pd.to_numeric(df[c], errors="coerce")` of one cell.
to_numeric_coerce(cell) == IF cell.k = "num" THEN cell ELSE NaN

\* `df["qty"] * df["current_price"]` of one row.
market_value(qty, current_price) ==
  IF qty.k = "num" /\ current_price.k = "num"
  THEN Num(qty.v * current_price.v) ELSE NaN

\* `(current_price - exec_price) / exec_price * 100.0` of one row.  The division
\* is the float division; the prices of the uploads divide without remainder.
pnl_pct(exec_price, current_price) ==
  IF exec_price.k # "num" \/ current_price.k # "num" THEN NaN
  ELSE IF exec_price.v # 0
       THEN Num(((current_price.v - exec_price.v) * 100) \div exec_price.v)
  ELSE IF current_price.v = 0 THEN NaN
  ELSE Inf(IF current_price.v > 0 THEN 1 ELSE -1)

\* The record of one row of the cleaned frame.
upload_row(columns, row) ==
  LET cell(c) == row[ColumnIndex(columns, c)]
      qty == to_numeric_coerce(cell("qty"))
      exec_price == to_numeric_coerce(cell("exec_price"))
      current_price == to_numeric_coerce(cell("current_price"))
  IN  [ticker |-> str_upper(cell("ticker")),
       qty |-> qty,
       exec_price |-> exec_price,
       current_price |-> current_price,
       market_value |-> market_value(qty, current_price),
       pnl_pct |-> pnl_pct(exec_price, current_price)]

\* _load_excel_to_df: the rows of the cleaned frame, or the error.  The ticker
\* cells of the uploads are text, so `dropna` drops the rows without a quantity.
load_excel_to_df(content) ==
  LET columns == rename_columns(content.columns)
      cleaned == [r \in DOMAIN content.rows |-> upload_row(columns, content.rows[r])]
  IN  IF ~ (required \subseteq Range(columns))
      THEN [outcome |-> MissingColumns, rows |-> << >>]
      ELSE [outcome |-> "ok",
            rows |-> SelectSeq(cleaned, LAMBDA row : row.qty.k = "num")]

\* upload_portfolio that stores the frame before it is known to be good: a
\* failed upload leaves no table.
upload_portfolio_drops_on_failure(df, d, content, saved) ==
  LET parsed == load_excel_to_df(content)
  IN  IF ~ saved
      THEN [df |-> None, db |-> d, status |-> 400, outcome |-> SaveError, rows_loaded |-> 0]
      ELSE IF parsed.outcome # "ok"
      THEN [df |-> None, db |-> d, status |-> 400, outcome |-> parsed.outcome,
            rows_loaded |-> 0]
      ELSE [df |-> Some(parsed.rows), db |-> d, status |-> 200, outcome |-> "ok",
            rows_loaded |-> Len(parsed.rows)]

\* upload_portfolio that also loads the spreadsheet into the ledger.
upload_portfolio_loads_ledger(df, d, content, saved) ==
  LET parsed == load_excel_to_df(content)
  IN  IF ~ saved
      THEN [df |-> df, db |-> d, status |-> 400, outcome |-> SaveError, rows_loaded |-> 0]
      ELSE IF parsed.outcome # "ok"
      THEN [df |-> df, db |-> d, status |-> 400, outcome |-> parsed.outcome,
            rows_loaded |-> 0]
      ELSE [df |-> Some(parsed.rows), db |-> import_excel(d, content).db,
            status |-> 200, outcome |-> "ok", rows_loaded |-> Len(parsed.rows)]

\* upload_portfolio: PORTFOLIO_DF and the ledger after the request, and the
\* answer.  `saved` tells whether the file could be written to the temp path.
upload_portfolio(df, d, content, saved) ==
  LET parsed == load_excel_to_df(content)
  IN  IF ~ saved
      THEN [df |-> df, db |-> d, status |-> 400, outcome |-> SaveError, rows_loaded |-> 0]
      ELSE IF parsed.outcome # "ok"
      THEN [df |-> df, db |-> d, status |-> 400, outcome |-> parsed.outcome,
            rows_loaded |-> 0]
      ELSE [df |-> Some(parsed.rows), db |-> d, status |-> 200, outcome |-> "ok",
            rows_loaded |-> Len(parsed.rows)]

\* get_portfolio: the positions of the answer.
get_portfolio(df) == IF df = None \/ df[1] = << >> THEN << >> ELSE df[1]

\* Header rows of the uploads: the documented one, one that differs from
\* COL_RENAME in case and spelling, and one without the required columns.
UploadHeaders ==
  { << "Ticker (RIC)", "quantity", "Execution Price", "Current Price" >>,
    << "ticker (ric)", "qunatity", "execution price", "current price" >>,
    << "Ticker", "QTY", "Execution Price", "Current Price" >> }

\* Data rows of the uploads: no row, good rows, a row without a quantity, a row
\* without an execution price.
UploadSheets ==
  { << >>,
    << << Str("aapl"), Num(2), Num(100), Num(150) >>,
       << Str("MSFT"), Num(1), Num(100), Num(160) >> >>,
    << << Str("aapl"), Num(2), Num(100), Num(150) >>,
       << Str("MSFT"), Str("x"), Num(100), Num(160) >> >>,
    << << Str("MSFT"), Num(1), Blank, Num(160) >> >> }

UploadFiles == [columns : UploadHeaders, rows : UploadSheets]

\* One POST /portfolio/upload.
Upload ==
  \E f \in UploadFiles, saved \in BOOLEAN :
    LET r == upload_portfolio(PORTFOLIO_DF, db, f, saved)
    IN  /\ PORTFOLIO_DF' = r.df
        /\ db' = r.db
        /\ response' = [status |-> r.status, positions |-> << >>,
                        rows_loaded |-> r.rows_loaded]
        /\ uploaded' = IF r.status = 200
                       THEN [columns |-> f.columns, rows |-> f.rows,
                             failed_since |-> FALSE]
                       ELSE [uploaded EXCEPT !.failed_since = TRUE]
        /\ op' = "upload"
        /\ arg' = NoArg
        /\ file' = f
        /\ outcome' = r.outcome
        /\ ret' = << >>
        /\ pre' = db
        /\ UNCHANGED << bought, onlyBuys, agentVars, toolVars, search, sess >>

\* One GET /portfolio.
GetPortfolio ==
  /\ response' = [status |-> 200, positions |-> get_portfolio(PORTFOLIO_DF),
                  rows_loaded |-> 0]
  /\ op' = "get_portfolio"
  /\ arg' = NoArg
  /\ file' = NoFile
  /\ outcome' = "ok"
  /\ ret' = << >>
  /\ pre' = db
  /\ UNCHANGED << db, bought, onlyBuys, PORTFOLIO_DF, uploaded, agentVars,
                  toolVars, search, sess >>

\* Ledger imports that run next to the uploads.
LedgerFiles ==
  [columns : { << "Ticker (RIC)", "quantity", "Execution Price", "Current Price" >> },
   rows : { << >>, << << Str("MSFT"), Num(2), Num(150), Num(160) >> >> }]

\* The upload API next to trades and imports on the ledger.
NextUpload ==
  \/ Upload
  \/ GetPortfolio
  \/ BuyFrom({"aapl"}, {1}, NoPrices)
  \/ SellFrom({"AAPL"}, {1, 2})
  \/ ImportFrom(LedgerFiles)

SpecUpload == Init /\ [][NextUpload]_vars

\* ------------------------------------------------------------------ web search

\* str.strip of the queries.
Strip(s) == IF s = "   " THEN "" ELSE s

\* Min of two numbers.
Min(a, b) == IF a < b THEN a ELSE b

\* `urlparse(href)` and `parse_qs(parsed.query)` of the anchors' targets: whether
\* urlparse raises, the netloc, the path and the decoded uddg parameter.
urlparse(href) ==
  CASE href = "//duckduckgo.com/l/?uddg=https%3A%2F%2Fa.example%2F" ->
         [raises |-> FALSE, netloc |-> "duckduckgo.com", path |-> "/l/",
          uddg |-> Some("https://a.example/")]
    [] href = "https://b.example/" ->
         [raises |-> FALSE, netloc |-> "b.example", path |-> "/", uddg |-> None]
    [] href = "http://[" ->
         [raises |-> TRUE, netloc |-> "", path |-> "", uddg |-> None]

\* The URL an anchor's target stands for.
real_url(href) ==
  LET parsed == urlparse(href)
  IN  IF parsed.netloc = "duckduckgo.com" /\ parsed.path = "/l/" /\ parsed.uddg # None
      THEN parsed.uddg[1] ELSE href

\* The loop over `soup.select("div.result")` from block i on: the results
\* collected, or the exception of urlparse.
RECURSIVE scan_results(_, _, _, _)
scan_results(page, i, results, max_results) ==
  IF i > Len(page) THEN [raised |-> FALSE, results |-> results]
  ELSE IF ~ page[i].anchor THEN scan_results(page, i + 1, results, max_results)
  ELSE IF urlparse(page[i].href).raises THEN [raised |-> TRUE, results |-> << >>]
  ELSE LET more == Append(results, real_url(page[i].href))
       IN  IF Len(more) >= max_results THEN [raised |-> FALSE, results |-> more]
           ELSE scan_results(page, i + 1, more, max_results)

\* web_search_tool: whether it made the network call, whether it raised, and
\* the URLs of the results it returned.
web_search_tool(query, num_results, network, page) ==
  IF query = "" \/ Strip(query) = ""
  THEN [called_network |-> FALSE, raised |-> FALSE, results |-> << >>]
  ELSE IF network # "ok"
  THEN [called_network |-> TRUE, raised |-> FALSE, results |-> << >>]
  ELSE IF num_results.k # "num"
  THEN [called_network |-> TRUE, raised |-> TRUE, results |-> << >>]
  ELSE LET r == scan_results(page, 1, << >>, Max(1, Min(10, num_results.v)))
       IN  [called_network |-> TRUE, raised |-> r.raised, results |-> r.results]

\* The queries: empty, blank, and a real one.
Queries == {"", "   ", "aapl news"}

\* The num_results argument: numbers, and a text that is no number.
NumResults == {Num(0), Num(5), Str("five")}

\* What the network does with the request.
Networks == {"ok", "timeout", "http_error"}

\* The result blocks of a page: with or without an anchor, and its target.
ResultBlocks ==
  [anchor : {TRUE},
   href : {"//duckduckgo.com/l/?uddg=https%3A%2F%2Fa.example%2F",
           "https://b.example/", "http://["}]
  \cup {[anchor |-> FALSE, href |-> ""]}

Pages == SeqsUpTo(ResultBlocks, MaxPage)

\* One call of web_search.
WebSearch ==
  \E query \in Queries, num_results \in NumResults, network \in Networks,
     page \in Pages :
    LET r == web_search_tool(query, num_results, network, page)
    IN  /\ search' = [query |-> query, num_results |-> num_results,
                      network |-> network, page |-> page,
                      called_network |-> r.called_network,
                      raised |-> r.raised, results |-> r.results]
        /\ UNCHANGED << ledgerVars, agentVars, toolVars, uploadVars, sess >>

NextSearch == WebSearch

SpecSearch == Init /\ [][NextSearch]_vars

\* ------------------------------------------------------------------ agent turn

\* max_iterations of the AgentExecutor
MaxIterations == 6

NoCall == [tool |-> "none", arg |-> NoArg]

ToolCall(tool, t, q) ==
  [tool |-> tool,
   arg |-> [ticker |-> t, qty |-> q, exec_price |-> None, current_price |-> None]]

\* The tool calls the model may emit.
ToolCalls ==
  {[tool |-> "show_portfolio", arg |-> NoArg]}
    \cup {ToolCall("buy_stock", "aapl", q) : q \in {0, 1}}
    \cup {ToolCall("sell_stock", "AAPL", q) : q \in {1, 2}}

\* BuyArgs / SellArgs: qty is declared gt=0.
args_valid(call) == call.tool = "show_portfolio" \/ call.arg.qty > 0

\* The table a tool call leaves behind.
tool_db(d, call) ==
  IF ~ args_valid(call) THEN d
  ELSE IF call.tool = "buy_stock"
  THEN buy_stock(d, call.arg.ticker, call.arg.qty,
                 call.arg.exec_price, call.arg.current_price).db
  ELSE IF call.tool = "sell_stock"
  THEN sell_stock(d, call.arg.ticker, call.arg.qty).db
  ELSE d

\* _should_continue without an iteration cap.
unbounded_continue(i) == TRUE

\* AgentExecutor._should_continue: the loop goes on while this holds.
should_continue(i) == i < MaxIterations

InTurn == agent_state \in {"awaiting_model_response", "executing_tools"}

Terminal == agent_state \in {"done", "aborted"}

\* run_cli reads a user message and invokes the agent.
UserMessage ==
  /\ ~ InTurn
  /\ agent_state' = "awaiting_model_response"
  /\ iterations' = 0
  /\ pending' = NoCall
  /\ turn_result' = "none"
  /\ confirmed' \in BOOLEAN
  /\ UNCHANGED << ledgerVars, toolVars, restVars >>

\* The model answers with the final text.
ModelFinalAnswer ==
  /\ agent_state = "awaiting_model_response"
  /\ should_continue(iterations)
  /\ agent_state' = "done"
  /\ turn_result' = "final"
  /\ UNCHANGED << iterations, pending, confirmed >>
  /\ UNCHANGED << ledgerVars, toolVars, restVars >>

\* The model answers with a tool call.
ModelToolCall ==
  /\ agent_state = "awaiting_model_response"
  /\ should_continue(iterations)
  /\ \E call \in ToolCalls :
       /\ WithinBounds(tool_db(db, call))
       /\ pending' = call
  /\ agent_state' = "executing_tools"
  /\ UNCHANGED << iterations, turn_result, confirmed >>
  /\ UNCHANGED << ledgerVars, toolVars, restVars >>

\* The call of the model raises; run_cli reports the error.
ModelError ==
  /\ agent_state = "awaiting_model_response"
  /\ should_continue(iterations)
  /\ agent_state' = "aborted"
  /\ turn_result' = "error"
  /\ UNCHANGED << iterations, pending, confirmed >>
  /\ UNCHANGED << ledgerVars, toolVars, restVars >>

\* The tools that change the ledger.
MutatingTools == {"buy_stock", "sell_stock"}

\* The pending tool call runs.  An exception of the tool leaves the executor
\* and ends the turn in run_cli; a result goes back to the model.
ExecuteTool ==
  /\ agent_state = "executing_tools"
  /\ IF ~ args_valid(pending)
     THEN /\ UNCHANGED << ledgerVars, toolVars >>
          /\ agent_state' = "aborted"
          /\ turn_result' = "error"
          /\ iterations' = iterations
     ELSE /\ \/ pending.tool = "show_portfolio" /\ ShowStep
             \/ pending.tool = "buy_stock"
                  /\ BuyStep(pending.arg.ticker, pending.arg.qty,
                             pending.arg.exec_price, pending.arg.current_price)
             \/ pending.tool = "sell_stock"
                  /\ SellStep(pending.arg.ticker, pending.arg.qty)
          /\ ToolSession(outcome')
          /\ IF outcome' = "ok"
             THEN /\ agent_state' = "awaiting_model_response"
                  /\ turn_result' = turn_result
                  /\ iterations' = iterations + 1
             ELSE /\ agent_state' = "aborted"
                  /\ turn_result' = "error"
                  /\ iterations' = iterations
  /\ pending' = NoCall
  /\ UNCHANGED << confirmed, restVars >>

\* The loop ends at the iteration cap with the stopped response.
IterationLimit ==
  /\ agent_state = "awaiting_model_response"
  /\ ~ should_continue(iterations)
  /\ agent_state' = "aborted"
  /\ turn_result' = "iteration_limit"
  /\ UNCHANGED << iterations, pending, confirmed >>
  /\ UNCHANGED << ledgerVars, toolVars, restVars >>

\* The steps of one turn.
AgentStep ==
  ModelFinalAnswer \/ ModelToolCall \/ ModelError \/ ExecuteTool \/ IterationLimit

NextAgent == UserMessage \/ AgentStep

\* The agent loop is synchronous: a turn that can take a step takes it.
SpecAgent == Init /\ [][NextAgent]_vars /\ WF_vars(AgentStep)

\* ------------------------------------------------------------------ concurrent sessions

StaleDataError == "StaleDataError"
SerializationFailure == "SerializationFailure"

\* Whether the persistence layer rejects a commit whose row another session
\* has changed since it was read.  Under its default isolation it does not.
write_conflict_detected(seen, current) == FALSE

\* qty_delta of a call: +qty for a buy, -qty for a sell.
qty_delta(call) == IF call.tool = "buy_stock" THEN call.arg.qty ELSE - call.arg.qty

\* The start of buy_stock / sell_stock in a session: the checks of the
\* arguments and the read of the position (get_position).
begin_call(d, call) ==
  LET found == get_position(d, call.arg.ticker)
  IN  IF call.arg.qty <= 0 THEN [outcome |-> InvalidQuantity, seen |-> None]
      ELSE IF call.tool = "sell_stock" /\ (found = None \/ found[1].qty < call.arg.qty)
      THEN [outcome |-> InsufficientShares, seen |-> found]
      ELSE [outcome |-> "ok", seen |-> found]

\* The write of insert_position that adds the delta to the quantity the table
\* holds at the commit, not to the one the session read.
commit_position_rereads(d, call, seen, row_gone) ==
  LET t == Upper(call.arg.ticker)
      current == get_position(d, t)
      r == insert_position(d, t, qty_delta(call), call.arg.exec_price,
                           call.arg.current_price)
  IN  IF seen # None /\ (row_gone \/ current = None)
      THEN [db |-> d, outcome |-> StaleDataError]
      ELSE [db |-> r.db, outcome |-> "ok"]

\* The write of insert_position and its commit, in a session that read `seen`
\* at the start of the call, against the table d as it is at the commit.
\* row_gone: the row the session read has been deleted since.
commit_position(d, call, seen, row_gone) ==
  LET t == Upper(call.arg.ticker)
      current == get_position(d, t)
      e == call.arg.exec_price
      c == call.arg.current_price
  IN  IF seen = None
      THEN LET pos == Position(t, Max(qty_delta(call), 0),
                               IF e # None THEN e ELSE c,
                               IF c # None THEN c ELSE e)
           IN  IF current # None /\ ~ unique_key_ok(<< current[1], pos >>)
               THEN [db |-> d, outcome |-> IntegrityError]
               ELSE [db |-> d \cup {pos}, outcome |-> "ok"]
      ELSE LET qty == seen[1].qty + qty_delta(call)
           IN  IF row_gone \/ current = None
               THEN [db |-> d, outcome |-> IF qty <= 0 THEN "ok" ELSE StaleDataError]
               ELSE IF write_conflict_detected(seen, current)
               THEN [db |-> d, outcome |-> SerializationFailure]
               ELSE IF qty <= 0
               THEN [db |-> d \ {current[1]},
                     outcome |-> IF call.tool = "buy_stock" THEN AssertionFailed ELSE "ok"]
               ELSE [db |-> (d \ {current[1]}) \cup
                              {Position(t, qty,
                                        IF e # None THEN e ELSE current[1].exec_price,
                                        IF c # None THEN c ELSE current[1].current_price)},
                     outcome |-> "ok"]

\* The calls that run in the concurrent sessions, all on one ticker.
RaceCalls ==
  {ToolCall("buy_stock", "aapl", q) : q \in {1, 2}}
    \cup {ToolCall("sell_stock", "AAPL", q) : q \in {1, 2}}

\* A session starts a call: it checks the arguments and reads the position.
Begin(s) ==
  /\ sess[s].pc \in {"idle", "done"}
  /\ \E call \in RaceCalls :
       LET r == begin_call(db, call)
       IN  sess' = [sess EXCEPT ![s] =
                      [pc |-> IF r.outcome = "ok" THEN "read" ELSE "done",
                       call |-> call, seen |-> r.seen, base |-> db,
                       outcome |-> r.outcome, raced |-> FALSE,
                       row_gone |-> FALSE, last |-> FALSE]]
  /\ UNCHANGED << ledgerVars, agentVars, toolVars, uploadVars, search >>

\* A session writes and commits.  The sessions that have read and not yet
\* committed now hold a stale read.
Commit(s) ==
  /\ sess[s].pc = "read"
  /\ LET r == commit_position(db, sess[s].call, sess[s].seen, sess[s].row_gone)
         t == Upper(sess[s].call.arg.ticker)
         deleted == get_position(db, t) # None /\ get_position(r.db, t) = None
     IN  /\ WithinBounds(r.db)
         /\ db' = r.db
         /\ sess' = [o \in Sessions |->
                       IF o = s
                       THEN [sess[o] EXCEPT !.pc = "done", !.outcome = r.outcome,
                                            !.last = TRUE]
                       ELSE IF sess[o].pc = "read"
                       THEN [sess[o] EXCEPT !.raced = TRUE, !.last = FALSE,
                                            !.row_gone =
                                               \/ @
                                               \/ /\ deleted
                                                  /\ sess[o].seen # None
                                                  /\ sess[o].seen[1].ticker = t]
                       ELSE [sess[o] EXCEPT !.last = FALSE]]
  /\ UNCHANGED << op, arg, file, outcome, ret, pre, bought, onlyBuys,
                  agentVars, toolVars, uploadVars, search >>

\* Buys and sells of one ticker from two sessions, interleaved at the read and
\* at the commit.
NextRace == \E s \in Sessions : Begin(s) \/ Commit(s)

SpecRace == Init /\ [][NextRace]_vars

\* ------------------------------------------------------------------ properties

\* The rows a table holds for a ticker argument.
Held(d, t) == {p \in d : p.ticker = Upper(t)}

\* The one row a table holds for a ticker argument.
HeldRow(d, t) == CHOOSE p \in Held(d, t) : TRUE

\* The header row the specification documents.
DocumentedHeaders == << "Ticker (RIC)", "quantity", "Execution Price", "Current Price" >>

\* The tickers of a spreadsheet's rows, in upper case.
FileTickers(f) == {Upper(f.rows[i][1].s) : i \in DOMAIN f.rows}

\* The number in a quantity cell; a cell that holds no number counts 0.
CellNumber(cell) == IF cell.k = "num" THEN cell.v ELSE 0

\* C1: every persisted position has qty > 0, after any sequence of buys, sells
\* and imports; a row whose quantity would be <= 0 is never stored.
C1_PersistedQtyPositive == \A p \in db : p.qty > 0

\* C2: a buy of n > 0 on a ticker that has a position with quantity q succeeds,
\* returns the resulting position (never nothing) and leaves the ticker with
\* quantity q + n; each price is overwritten only when its argument is supplied.
C2_BuyOnHeldTickerAdds ==
  (op = "buy" /\ arg.qty > 0 /\ Held(pre, arg.ticker) # {}) =>
    LET old == HeldRow(pre, arg.ticker)
    IN  /\ outcome = "ok"
        /\ ret # None
        /\ Held(db, arg.ticker) = {ret[1]}
        /\ ret[1].qty = old.qty + arg.qty
        /\ ret[1].exec_price =
             IF arg.exec_price # None THEN arg.exec_price ELSE old.exec_price
        /\ ret[1].current_price =
             IF arg.current_price # None THEN arg.current_price ELSE old.current_price

\* C3: a buy of n > 0 on a ticker without a position creates exactly one position,
\* for the upper-case ticker, with quantity n and with each missing price taken
\* from the other one.
C3_BuyOnAbsentTickerCreates ==
  (op = "buy" /\ arg.qty > 0 /\ Held(pre, arg.ticker) = {}) =>
    LET created ==
          Position(Upper(arg.ticker), arg.qty,
                   IF arg.exec_price # None THEN arg.exec_price ELSE arg.current_price,
                   IF arg.current_price # None THEN arg.current_price ELSE arg.exec_price)
    IN  /\ outcome = "ok"
        /\ ret = << created >>
        /\ db = pre \cup {created}
        /\ Held(db, arg.ticker) = {created}

\* A buy of a lower-case ticker without a position, given only the current price.
C3_Witness ==
  /\ op = "buy" /\ outcome = "ok"
  /\ arg.ticker = "aapl" /\ arg.qty = 2
  /\ arg.exec_price = None /\ arg.current_price = Some(160)
  /\ Held(pre, arg.ticker) = {} /\ pre # {}
  /\ Position("AAPL", 2, Some(160), Some(160)) \in db

\* C4: a sell of s with 0 < s < q leaves the position with quantity q - s and
\* returns it; a sell of s = q deletes the position and returns nothing, and the
\* ticker has no position afterwards.
C4_SellSubtractsOrDeletes ==
  (op = "sell" /\ arg.qty > 0 /\ Held(pre, arg.ticker) # {}) =>
    LET old == HeldRow(pre, arg.ticker)
        left == [old EXCEPT !.qty = old.qty - arg.qty]
    IN  /\ arg.qty < old.qty =>
              /\ outcome = "ok"
              /\ ret = << left >>
              /\ Held(db, arg.ticker) = {left}
        /\ arg.qty = old.qty =>
              /\ outcome = "ok"
              /\ ret = None
              /\ Held(db, arg.ticker) = {}

\* A sell of the whole holding of a ticker given in lower case.
C4_Witness ==
  /\ op = "sell" /\ outcome = "ok"
  /\ arg.ticker = "aapl"
  /\ Held(pre, arg.ticker) # {}
  /\ HeldRow(pre, arg.ticker).qty = arg.qty
  /\ ret = None
  /\ Held(db, arg.ticker) = {}

\* C5: a sell of s > 0 fails with InsufficientShares when the ticker has no
\* position or holds less than s, and the ledger is then as it was.
C5_SellMoreThanHeldFails ==
  (/\ op = "sell" /\ arg.qty > 0
   /\ \/ Held(pre, arg.ticker) = {}
      \/ HeldRow(pre, arg.ticker).qty < arg.qty) =>
    /\ outcome = InsufficientShares
    /\ db = pre

\* A sell of 2 on a holding of 1.
C5_Witness ==
  /\ op = "sell" /\ outcome = InsufficientShares
  /\ arg.qty = 2
  /\ Held(pre, arg.ticker) # {}
  /\ HeldRow(pre, arg.ticker).qty = 1
  /\ db = pre

\* C6: a buy or a sell with qty <= 0 fails with InvalidQuantity, whether or not
\* the ticker has a position, and the ledger is then as it was.
C6_NonPositiveQtyFails ==
  (op \in {"buy", "sell"} /\ arg.qty <= 0) =>
    /\ outcome = InvalidQuantity
    /\ db = pre

\* A buy of 0 on a ticker without a position, in a ledger that is not empty.
C6_Witness ==
  /\ op = "buy" /\ outcome = InvalidQuantity
  /\ arg.qty = 0
  /\ Held(pre, arg.ticker) = {} /\ pre # {}
  /\ db = pre

C8_ImportKeepsDocumentedColumns ==
  (op = "import" /\ outcome = "ok" /\ file.columns = DocumentedHeaders) =>
    /\ Cardinality(db) = Len(file.rows)
    /\ \A i \in DOMAIN file.rows :
         (\A c \in 2..4 : file.rows[i][c].k = "num") =>
           Position(Upper(file.rows[i][1].s), file.rows[i][2].v,
                    Some(file.rows[i][3].v), Some(file.rows[i][4].v)) \in db

\* C9: after buys only, show_portfolio returns one row per upper-case ticker
\* bought, in ascending order of ticker, whose qty is the sum of the quantities
\* bought for the ticker.
C9_ShowSumsBuys ==
  (op = "show" /\ onlyBuys) =>
    /\ \A i, j \in DOMAIN ret :
         i < j => TickerRank(ret[i].ticker) < TickerRank(ret[j].ticker)
    /\ {ret[i].ticker : i \in DOMAIN ret} = {t \in Tickers : bought[t] > 0}
    /\ \A i \in DOMAIN ret : ret[i].qty = bought[ret[i].ticker]

\* A listing of two tickers after several buys of AAPL that add up to 3.
C9_Witness ==
  /\ op = "show" /\ onlyBuys
  /\ Len(ret) = 2
  /\ ret[1].ticker = "AAPL" /\ ret[1].qty = 3
  /\ bought["AAPL"] = 3

\* C10: every agent turn reaches done or aborted; the round trips of a turn
\* never exceed the iteration cap, and a turn at the cap is aborted.
C10_TurnEnds ==
  /\ [](iterations <= MaxIterations)
  /\ [][(agent_state = "awaiting_model_response" /\ iterations >= MaxIterations)
          => agent_state' = "aborted"]_vars
  /\ (InTurn ~> Terminal)

\* A turn aborted at the iteration cap after six tool round trips.
C10_Witness ==
  /\ agent_state = "aborted"
  /\ turn_result = "iteration_limit"
  /\ iterations = MaxIterations

\* The ledger operation a tool runs.
ToolOp(tool) ==
  CASE tool = "buy_stock" -> "buy"
    [] tool = "sell_stock" -> "sell"
    [] OTHER -> "show"

\* The executor is about to run a buy_stock or sell_stock call with qty > 0.
TradePending ==
  /\ agent_state = "executing_tools"
  /\ pending.tool \in MutatingTools
  /\ pending.arg.qty > 0

\* C11: buy_stock and sell_stock run only in a turn whose user message holds an
\* explicit confirmation; without one, no step of the turn runs a trade.
C11_TradesNeedConfirmation ==
  [][(TradePending /\ op' = ToolOp(pending.tool) /\ pre' = db) => confirmed]_vars

\* The errors of the ledger mutations.
LedgerErrors == {InvalidQuantity, InsufficientShares}

\* C12: when buy_stock or sell_stock fails with InvalidQuantity or
\* InsufficientShares in a turn, the error goes back into the loop as a tool
\* result and the turn goes on; the exception does not end the turn.
C12_ToolErrorReturnsToLoop ==
  [][(TradePending /\ outcome' \in LedgerErrors) =>
        /\ agent_state' = "awaiting_model_response"
        /\ turn_result' # "error"]_vars

\* The tools that open a persistence session.
SessionOps == {"buy", "sell", "show"}

C19_TradeTouchesOneTicker ==
  op \in {"buy", "sell"} =>
    \A p \in db \cup pre :
      p.ticker # Upper(arg.ticker) => (p \in db <=> p \in pre)

\* A buy or sell that changed its ticker while another position was held.
C19_Witness ==
  /\ op \in {"buy", "sell"}
  /\ outcome = "ok"
  /\ db # pre
  /\ \E p \in pre : p.ticker # Upper(arg.ticker)

\* The rows of a spreadsheet that hold a ticker, by index.
RowsOf(f, t) == {i \in DOMAIN f.rows : Upper(f.rows[i][1].s) = t}

\* The last row of a spreadsheet that holds a ticker.
LastRowOf(f, t) == CHOOSE i \in RowsOf(f, t) : \A j \in RowsOf(f, t) : j <= i

\* C17: a bulk import of a file in which one ticker appears in several rows
\* succeeds and leaves exactly one position for that ticker, holding the values
\* of the last such row.
C17_DuplicateTickersLastWins ==
  (op = "import" /\ outcome # SchemaError) =>
    \A t \in FileTickers(file) :
      Cardinality(RowsOf(file, t)) > 1 =>
        /\ outcome = "ok"
        /\ Cardinality(Held(db, t)) = 1
        /\ HeldRow(db, t).qty = CellNumber(file.rows[LastRowOf(file, t)][2])

\* C20: a ledger import is all-or-nothing: when load_df_into_db fails while it
\* builds or inserts the new rows, the ledger still holds the positions it held
\* before the import.
C20_ImportAllOrNothing ==
  (op = "import" /\ outcome \in {FloatError, IntegrityError}) => db = pre

\* The rows of the most recent successful upload; none before the first one.
LastUploadRows ==
  IF uploaded.columns = << >> THEN << >> ELSE load_excel_to_df(uploaded).rows

\* C13: after any sequence of successful and failed uploads, GET /portfolio
\* returns the rows of the most recent successful upload, or an empty list if
\* no upload has succeeded; an upload that fails with a parse or schema error
\* answers HTTP 400 and leaves the transient table as it was.
C13_GetReturnsLastGoodUpload ==
  /\ [](op = "get_portfolio" => response.positions = LastUploadRows)
  /\ [][(op' = "upload" /\ outcome' # "ok") =>
          /\ response'.status = 400
          /\ PORTFOLIO_DF' = PORTFOLIO_DF]_vars

\* A GET that answers the rows of a good upload after a later upload failed;
\* the good upload had a row without a quantity, which the table does not hold.
C13_Witness ==
  /\ op = "get_portfolio"
  /\ uploaded.failed_since
  /\ response.positions # << >>
  /\ Len(response.positions) < Len(uploaded.rows)

\* C18: the upload path and the ledger are disjoint state: POST
\* /portfolio/upload never changes a position of the ledger, and buy, sell and
\* ledger import never change the transient table GET /portfolio returns.
C18_UploadAndLedgerDisjoint ==
  [][/\ op' = "upload" => db' = db
     /\ op' \in {"buy", "sell", "import"} =>
          /\ PORTFOLIO_DF' = PORTFOLIO_DF
          /\ get_portfolio(PORTFOLIO_DF') = get_portfolio(PORTFOLIO_DF)]_vars

\* A successful upload of rows while the ledger holds positions that are not
\* the upload's, next to a table that trades have left alone.
C18_Witness ==
  /\ op = "upload"
  /\ response.status = 200
  /\ response.rows_loaded > 0
  /\ db # {}
  /\ db = pre

\* C14: web_search never raises to its caller: for an empty or whitespace-only
\* query it returns an empty list without a network call, and for every network
\* or parse failure it returns an empty list.
C14_WebSearchNeverRaises ==
  search.network # "none" =>
    /\ ~ search.raised
    /\ search.query \in {"", "   "} =>
         (~ search.called_network /\ search.results = << >>)
    /\ search.network # "ok" => search.results = << >>

\* buy_stock or sell_stock as one uninterrupted call.
Serial(d, call) ==
  IF call.tool = "buy_stock"
  THEN buy_stock(d, call.arg.ticker, call.arg.qty, call.arg.exec_price,
                 call.arg.current_price)
  ELSE sell_stock(d, call.arg.ticker, call.arg.qty)

\* The ledgers the two calls leave when they run one after the other, in
\* either order, from the table d.
SerialLedgers(d, a, b) ==
  {Serial(Serial(d, a).db, b).db, Serial(Serial(d, b).db, a).db}

\* The session whose call has committed last, after the other session
\* committed between its read and its commit, both calls having succeeded on
\* a row that is still in the table.
LostUpdateBy(o) ==
  /\ sess[o].pc = "done" /\ sess[o].last /\ sess[o].raced
  /\ sess[o].outcome = "ok"
  /\ sess[o].seen # None /\ ~ sess[o].row_gone
  /\ \A s \in Sessions : sess[s].pc = "done" /\ sess[s].outcome = "ok"

\* C15: concurrent buy/sell calls on one ticker from separate sessions are not
\* serialized: when both calls read the position before either commits, the
\* later commit writes the quantity it read plus its own delta, whatever the
\* other call committed in between, so the other call's update is lost.
C15_LostUpdate ==
  \A o \in Sessions :
    LostUpdateBy(o) =>
      LET t == sess[o].call.arg.ticker
          qty == sess[o].seen[1].qty + qty_delta(sess[o].call)
      IN  IF qty <= 0 THEN Held(db, t) = {}
          ELSE Held(db, t) # {} /\ HeldRow(db, t).qty = qty

\* Both calls read the same table before either committed, both succeeded, and
\* the committed quantity is the one of no serial order of the two calls.
C15_Witness ==
  \E o \in Sessions :
    /\ LostUpdateBy(o)
    /\ \A s \in Sessions : sess[s].base = sess[o].base /\ sess[s].seen = sess[o].seen
    /\ db \notin SerialLedgers(sess[o].base, sess[1].call, sess[2].call)

====
